---- MODULE Spec2Model ----
(***************************************************************************)
(* FocusPro: the Timer countdown engine (js/modules/Timer.js), the host's  *)
(* interval scheduler it runs on, and the session coordinator (js/main.js) *)
(* that turns "timer reached zero" into work/break bookkeeping; the task    *)
(* ledger (js/modules/TaskManager.js); and the persistent store            *)
(* (js/modules/Storage.js) over the host's localStorage.                   *)
(*                                                                         *)
(* One record w (the "world") is threaded through the operators that model *)
(* the methods, so that a method calling another method, or an observer    *)
(* running inline inside a transition, composes as it does in the source.  *)
(* Field exc of the world is a pending JavaScript exception: the statements*)
(* after a throwing call are skipped until a try/catch clears it.          *)
(*                                                                         *)
(* How calls of main.js are resolved: a call resolves to the method of     *)
(* that name in the source class when the class has one, with JavaScript's *)
(* argument passing (a missing argument is undefined, an extra one is      *)
(* ignored).  A call of a method no source class defines (main.js is       *)
(* written against createTask, incrementSessions, playSound, onComplete... *)
(* which the modules do not have) is modelled by what the specification    *)
(* says the operation does; calls on the presentation and audio            *)
(* collaborators have no effect on the modelled state.                     *)
(***************************************************************************)
EXTENDS Integers, Sequences, FiniteSets, TLC

\* ------------------------------------------------------------- bounds
\* Durations (seconds, scaled down) a Timer is constructed or configured with.
MaxDuration == 3
\* Observers registered per event class.
MaxObservers == 2
\* Completions recorded between two resets (start() re-arms a completed timer).
MaxCompletions == 2
\* Value at which the coordinator's session counter stops being driven further.
MaxSessions == 2

\* Characters of a text typed into the task input.
MaxText == 2
\* Records the ledger, and the stored task history, are driven up to.
MaxHistory == 3
\* Minutes of a completed task.
MaxMinutes == 2
\* Entries asked of getMostProductiveTasks.
MaxLimit == 2
\* Last calendar day reached (days are numbered from 1).
MaxDay == 4
\* Periodic sources alive at once beyond which the Timer is driven no further
\* (an observer that calls back into the Timer can leave sources behind).
MaxSources == 3

Durations == 1..MaxDuration

\* ------------------------------------------------------------- constants
\* TIMER_STATES of utils/constants.js.  The object has no COMPLETED property,
\* so TIMER_STATES.COMPLETED evaluates to undefined: a fourth state value,
\* distinct from the three strings.
IDLE == "idle"
RUNNING == "running"
PAUSED == "paused"
COMPLETED == "undefined"
TIMER_STATES == {IDLE, RUNNING, PAUSED, COMPLETED}

\* null, of an interval handle.
Null == 0

\* Text is a sequence of characters.  No current task (null) is the empty
\* text: a task's text is never empty, and the source tests the field only for
\* truthiness, which null and "" fail alike.
Chars == {" ", "a"}
NoTask == <<>>
\* An argument the caller left out (undefined) of a numeric parameter: the
\* source tests such parameters with !x first, which undefined and 0 fail alike.
Missing == 0

\* The default settings, in minutes.
DEFAULT_WORK_DURATION == 25
DEFAULT_BREAK_DURATION == 5

\* STORAGE_KEYS of utils/constants.js has SETTINGS, HISTORY and STATS.  Storage
\* reads STORAGE_KEYS.TASK_HISTORY and STORAGE_KEYS.STATISTICS, which the object
\* does not have: both are undefined, and localStorage makes the key undefined
\* the string "undefined".
SETTINGS == "focusPro_settings"
TASK_HISTORY == "undefined"
STATISTICS == "undefined"

\* Behaviours of a registered observer: a callback that returns, a callback
\* that throws, and the coordinator's own handler for the event.
OK == "ok"
THROWS == "throws"
APP == "app"
\* Observers that call back into the Timer they observe, inline: a callback
\* that calls start(), one that calls pause(), one that calls reset().
STARTS == "starts"
PAUSES == "pauses"
RESETS == "resets"

VARIABLES
  timer,      \* Timer's private fields: duration, remainingTime, state, intervalId, callbacks
  intervals,  \* the host's active periodic sources (ids handed out by setInterval)
  app,        \* App's fields: currentTask, isBreakMode, sessionCount
  ledger,     \* TaskManager's fields: currentTask, completedTasks
  stats,      \* today's persisted statistics record: sessions, totalMinutes
  today,      \* the calendar day the host's clock shows
  storage,    \* Storage's field: isAvailable
  localStorage, \* the host's localStorage: whether it works (up), and its items
  probe,      \* what the observers and the caller saw (see NewProbe)
  last        \* the operation performed last and the state it was performed in

vars == <<timer, intervals, app, ledger, stats, today, storage, localStorage, probe, last>>

\* The state an operation starts from: the program's state, no pending
\* exception, and an empty record of what this operation shows to the outside.
World ==
  [timer |-> timer, intervals |-> intervals, app |-> app, ledger |-> ledger,
   stats |-> stats, today |-> today, storage |-> storage,
   localStorage |-> localStorage, exc |-> FALSE,
   probe |-> [probe EXCEPT !.fired = <<>>, !.logged = 0, !.notices = <<>>,
                           !.escaped = FALSE, !.error = "", !.result = <<>>]]

\* fired: the callback invocations of the current operation, in order;
\* logged: the console.error calls of the current operation's catch blocks;
\* notices: the messages the current operation showed with showNotification;
\* escaped: an exception left the operation, to its caller or to the host;
\* error: the message of the Error the current operation threw last;
\* result: what the current operation returned to its caller;
\* elapsed, tickSeen, completions: since the last reset(), the number of
\* interval firings, the remaining seconds passed to each tick dispatch, and
\* the number of complete dispatches.
NewProbe ==
  [fired |-> <<>>, logged |-> 0, notices |-> <<>>, escaped |-> FALSE,
   error |-> "", result |-> <<>>,
   elapsed |-> 0, tickSeen |-> <<>>, completions |-> 0]

\* What an operation leaves behind besides the probe.
Core(w) ==
  [timer |-> w.timer, intervals |-> w.intervals, app |-> w.app,
   ledger |-> w.ledger, stats |-> w.stats, today |-> w.today,
   storage |-> w.storage, localStorage |-> w.localStorage]

\* ------------------------------------------------------------- helpers
\* throw: the rest of the enclosing blocks is skipped up to the next catch.
Throw(w) == [w EXCEPT !.exc = TRUE]

\* throw new Error(message)
ThrowError(w, message) == [w EXCEPT !.exc = TRUE, !.probe.error = message]

\* return value
Return(w, value) == [w EXCEPT !.probe.result = value]

\* Sequencing: the statements F run after w unless an exception is pending.
Then(w, F(_)) == IF w.exc THEN w ELSE F(w)

\* try { ...w... } catch (error) { H }
Catch(w, H(_)) == IF w.exc THEN H([w EXCEPT !.exc = FALSE]) ELSE w

\* String.prototype.trim, on a text.
RECURSIVE TrimStart(_)
TrimStart(s) ==
  IF s # <<>> /\ Head(s) = " " THEN TrimStart(Tail(s)) ELSE s

RECURSIVE TrimEnd(_)
TrimEnd(s) ==
  IF s # <<>> /\ s[Len(s)] = " " THEN TrimEnd(SubSeq(s, 1, Len(s) - 1)) ELSE s

Trim(s) == TrimEnd(TrimStart(s))

\* UI.showNotification(message, ...): the message is put on the page.
showNotification(w, message) ==
  [w EXCEPT !.probe.notices = Append(@, message)]

\* ------------------------------------------------------------- TaskManager
\* A validation that takes any non-empty string, blank or not.
validateTaskNameNonEmpty(name) == name # <<>>

\* TaskManager.#validateTaskName: a non-empty string with a non-blank character.
validateTaskName(name) == name # <<>> /\ Len(Trim(name)) > 0

\* A count of all the completed tasks, whatever their names.
calculateSessionsForAll(w, taskName) == Len(w.ledger.completedTasks)

\* TaskManager.#calculateSessionsForTask
calculateSessionsForTask(w, taskName) ==
  Cardinality({i \in 1..Len(w.ledger.completedTasks) :
                 w.ledger.completedTasks[i].name = taskName})

\* The record completeTask makes: the trimmed name, the duration, the day of
\* completedAt (new Date()), and the name's ordinal among the completed tasks.
CompletedTask(w, taskName, duration) ==
  [name |-> Trim(taskName), duration |-> duration, completedAt |-> w.today,
   sessionCount |-> calculateSessionsForTask(w, Trim(taskName)) + 1]

\* TaskManager.completeTask(taskName, duration).  The record is pushed; the
\* save that follows calls storage.saveTodayTasks, which Storage does not
\* define, inside #saveToStorage's own try/catch, so it stores nothing.
completeTask(w, taskName, duration) ==
  IF ~validateTaskName(taskName)
  THEN ThrowError(w, "Task name must be a non-empty string")
  ELSE IF duration = Missing \/ duration <= 0
  THEN ThrowError(w, "Duration must be a positive number")
  ELSE Return([w EXCEPT !.ledger.completedTasks = Append(@, CompletedTask(w, taskName, duration))],
              CompletedTask(w, taskName, duration))

\* TaskManager.setCurrentTask.  The current task is modelled by its name.
setCurrentTask(w, taskName) ==
  IF ~validateTaskName(taskName)
  THEN ThrowError(w, "Task name must be a non-empty string")
  ELSE Return([w EXCEPT !.ledger.currentTask = Trim(taskName)], TRUE)

\* TaskManager.clearCurrentTask
clearCurrentTask(w) == Return([w EXCEPT !.ledger.currentTask = NoTask], TRUE)

\* TaskManager.completeCurrentTask: returns the record completeTask returned.
completeCurrentTask(w, duration) ==
  IF w.ledger.currentTask = NoTask
  THEN ThrowError(w, "No active task to complete")
  ELSE IF duration = Missing \/ duration <= 0
  THEN ThrowError(w, "Duration must be a positive number")
  ELSE Then(completeTask(w, w.ledger.currentTask, duration),
            LAMBDA v : Return(clearCurrentTask(v), v.probe.result))

\* The names of the tasks, each once, in the order they first occur.
RECURSIVE FirstSeen(_)
FirstSeen(tasks) ==
  IF tasks = <<>> THEN <<>>
  ELSE <<Head(tasks).name>> \o
       FirstSeen(SelectSeq(Tail(tasks), LAMBDA t : t.name # Head(tasks).name))

\* The sum of the durations of the tasks.
RECURSIVE TotalDuration(_)
TotalDuration(tasks) ==
  IF tasks = <<>> THEN 0 ELSE Head(tasks).duration + TotalDuration(Tail(tasks))

\* taskStats[name] after the forEach of getMostProductiveTasks
TaskStatsOf(tasks, name) ==
  [name |-> name,
   totalDuration |-> TotalDuration(SelectSeq(tasks, LAMBDA t : t.name = name)),
   sessionCount |-> Len(SelectSeq(tasks, LAMBDA t : t.name = name))]

\* A property name that is an array index ("0", "7", "12": a decimal number
\* without a leading zero), and the number it is.  An object lists such
\* properties first, in ascending order of the number, whenever they were set.
DigitChars == <<"0", "1", "2", "3", "4", "5", "6", "7", "8", "9">>
IsDigit(c) == \E i \in 1..Len(DigitChars) : DigitChars[i] = c
DigitOf(c) == (CHOOSE i \in 1..Len(DigitChars) : DigitChars[i] = c) - 1

IsArrayIndex(name) ==
  /\ name # <<>>
  /\ \A i \in 1..Len(name) : IsDigit(name[i])
  /\ Len(name) > 1 => name[1] # "0"

RECURSIVE IndexOf(_)
IndexOf(name) ==
  IF name = <<>> THEN 0
  ELSE 10 * IndexOf(SubSeq(name, 1, Len(name) - 1)) + DigitOf(name[Len(name)])

\* The index-like names of a set, in ascending order of their numbers.
RECURSIVE Ascending(_)
LeastIndex(names) == CHOOSE n \in names : \A m \in names : IndexOf(n) <= IndexOf(m)
Ascending(names) ==
  IF names = {} THEN <<>>
  ELSE <<LeastIndex(names)>> \o Ascending(names \ {LeastIndex(names)})

\* The keys of the object built by setting the names in the order given: the
\* order in which Object.values lists its properties.
OwnKeys(names) ==
  Ascending({names[i] : i \in {j \in 1..Len(names) : IsArrayIndex(names[j])}})
    \o SelectSeq(names, LAMBDA n : ~IsArrayIndex(n))

\* Array.prototype.sort((a, b) => b.totalDuration - a.totalDuration): stable,
\* so an entry goes after the entries that do not total less than it.
InsertByTotal(sorted, e) ==
  SelectSeq(sorted, LAMBDA x : x.totalDuration >= e.totalDuration) \o <<e>>
    \o SelectSeq(sorted, LAMBDA x : x.totalDuration < e.totalDuration)

RECURSIVE SortByTotal(_)
SortByTotal(entries) ==
  IF entries = <<>> THEN <<>>
  ELSE InsertByTotal(SortByTotal(SubSeq(entries, 1, Len(entries) - 1)),
                     entries[Len(entries)])

\* Array.prototype.slice(0, limit), for a positive limit
Slice(entries, limit) ==
  SubSeq(entries, 1, IF limit < Len(entries) THEN limit ELSE Len(entries))

\* Object.values(taskStats)
TaskStatsValues(tasks) ==
  [i \in 1..Len(OwnKeys(FirstSeen(tasks))) |->
     TaskStatsOf(tasks, OwnKeys(FirstSeen(tasks))[i])]

\* TaskManager.getMostProductiveTasks
getMostProductiveTasks(w, limit) ==
  IF limit = Missing \/ limit <= 0
  THEN ThrowError(w, "Limit must be a positive number")
  ELSE Return(w, Slice(SortByTotal(TaskStatsValues(w.ledger.completedTasks)), limit))

\* Date.prototype.toDateString ("Mon Jun 01 2026") of a day, and new Date() of
\* such a string.  The days are the days of one month (June 2026, whose 1st
\* is a Monday), so two strings differ in the weekday name and in the day.
WeekdayNames == <<"Sun", "Mon", "Tue", "Wed", "Thu", "Fri", "Sat">>
toDateString(day) == [weekday |-> WeekdayNames[(day % 7) + 1], date |-> day]
DateOf(dateString) == dateString.date

\* The order of strings, which Array.prototype.sort() without a comparator
\* sorts by: the weekday names in alphabetical order, then the day's digits.
Alphabetical == <<"Fri", "Mon", "Sat", "Sun", "Thu", "Tue", "Wed">>
RankOf(weekday) == CHOOSE i \in 1..Len(Alphabetical) : Alphabetical[i] = weekday
StringLeq(a, b) ==
  \/ RankOf(a.weekday) < RankOf(b.weekday)
  \/ RankOf(a.weekday) = RankOf(b.weekday) /\ a.date <= b.date

\* [...new Set(...)].sort()
RECURSIVE SortStrings(_)
LeastString(strings) == CHOOSE a \in strings : \A b \in strings : StringLeq(a, b)
SortStrings(strings) ==
  IF strings = {} THEN <<>>
  ELSE <<LeastString(strings)>> \o SortStrings(strings \ {LeastString(strings)})

\* The distinct completion dates as getStreakInfo orders them.
StreakDates(w) ==
  SortStrings({toDateString(w.ledger.completedTasks[i].completedAt) :
                 i \in 1..Len(w.ledger.completedTasks)})

\* The for loop of getStreakInfo from index i on (indices from 1), as
\* <<tempStreak, longestStreak>>.
RECURSIVE StreakLoop(_, _, _, _)
StreakLoop(dates, i, tempStreak, longestStreak) ==
  IF i > Len(dates) THEN <<tempStreak, longestStreak>>
  ELSE IF i < Len(dates)
  THEN IF DateOf(dates[i + 1]) - DateOf(dates[i]) = 1
       THEN StreakLoop(dates, i + 1, tempStreak + 1, longestStreak)
       ELSE StreakLoop(dates, i + 1, 0,
                       IF tempStreak > longestStreak THEN tempStreak ELSE longestStreak)
  ELSE StreakLoop(dates, i + 1, tempStreak + 1,
                  IF tempStreak + 1 > longestStreak THEN tempStreak + 1 ELSE longestStreak)

\* TaskManager.getStreakInfo.  new Date() is some way into today, so the days
\* since the last date (a midnight) are a whole number and a fraction.
getStreakInfo(w) ==
  IF Len(w.ledger.completedTasks) = 0
  THEN Return(w, [currentStreak |-> 0, longestStreak |-> 0, lastActiveDate |-> Null])
  ELSE Return(w, [currentStreak |->
                    IF w.today - DateOf(StreakDates(w)[Len(StreakDates(w))]) < 1
                    THEN StreakLoop(StreakDates(w), 1, 0, 0)[1] ELSE 0,
                  longestStreak |-> StreakLoop(StreakDates(w), 1, 0, 0)[2],
                  lastActiveDate |-> DateOf(StreakDates(w)[Len(StreakDates(w))])])

\* ------------------------------------------------------------- Storage
\* The JavaScript values the store handles: an array, with its elements and
\* the named properties set on it, or a plain object, with its properties.
ArrayValue(items) == [isArray |-> TRUE, items |-> items, props |-> <<>>]
ObjectValue(props) == [isArray |-> FALSE, items |-> <<>>, props |-> props]

\* object[key], tested for presence, and object[key] = value
HasProp(v, key) == key \in DOMAIN v.props
SetProp(v, key, value) == [v EXCEPT !.props = (key :> value) @@ @]

\* JSON.stringify: the text of an array lists its elements and leaves out the
\* named properties; the text of an object lists its properties.
stringify(v) ==
  IF v.isArray THEN [json |-> "array", items |-> v.items, props |-> <<>>]
  ELSE [json |-> "object", items |-> <<>>, props |-> v.props]

\* JSON.parse
parse(text) ==
  IF text.json = "array" THEN ArrayValue(text.items) ELSE ObjectValue(text.props)

\* The settings and the day's statistics Storage falls back on.  A day's
\* record is modelled by its counters (lastUpdated is left out).
DefaultSettings ==
  [workDuration |-> DEFAULT_WORK_DURATION, breakDuration |-> DEFAULT_BREAK_DURATION]
ZeroStats == [sessions |-> 0, totalMinutes |-> 0, tasks |-> 0]

\* localStorage.setItem: throws where localStorage does not work.
setItem(w, key, text) ==
  IF ~w.localStorage.up THEN ThrowError(w, "SecurityError")
  ELSE [w EXCEPT !.localStorage.items = (key :> text) @@ @]

\* Storage.#safeJsonParse(localStorage.getItem(key), fallback)
safeJsonParse(w, key, fallback) ==
  IF key \in DOMAIN w.localStorage.items
  THEN parse(w.localStorage.items[key]) ELSE fallback

\* Storage.#getAllStats: {} when getItem throws.
getAllStats(w) ==
  IF ~w.localStorage.up THEN ObjectValue(<<>>)
  ELSE safeJsonParse(w, STATISTICS, ObjectValue(<<>>))

\* Storage.#getDateKey and #formatDateKey: a date's key is its calendar day.
getDateKey(w) == w.today

\* Storage.getTodaysStats
getTodaysStats(w) ==
  IF ~w.storage.isAvailable THEN ZeroStats
  ELSE IF HasProp(getAllStats(w), getDateKey(w))
  THEN getAllStats(w).props[getDateKey(w)] ELSE ZeroStats

\* Storage.incrementSessionCount
incrementSessionCount(w) ==
  IF ~w.storage.isAvailable THEN Return(w, FALSE)
  ELSE Catch(Then(setItem(w, STATISTICS,
                          stringify(SetProp(getAllStats(w), getDateKey(w),
                                            [getTodaysStats(w) EXCEPT !.sessions = @ + 1]))),
                  LAMBDA v : Return(v, TRUE)),
             LAMBDA v : Return(v, FALSE))

\* Storage.resetDailyStats
resetDailyStats(w) ==
  IF ~w.storage.isAvailable THEN Return(w, FALSE)
  ELSE Catch(Then(setItem(w, STATISTICS,
                          stringify(SetProp(getAllStats(w), getDateKey(w), ZeroStats))),
                  LAMBDA v : Return(v, TRUE)),
             LAMBDA v : Return(v, FALSE))

\* One entry of getWeeklyStats: the day's stored record, or zeroes.
WeeklyEntry(w, date) ==
  [date |-> date,
   stats |-> IF HasProp(getAllStats(w), date) THEN getAllStats(w).props[date]
             ELSE ZeroStats]

\* getWeeklyStats() that goes back five days only.
getWeeklyStatsShort(w) ==
  IF ~w.storage.isAvailable THEN <<>>
  ELSE [k \in 1..6 |-> WeeklyEntry(w, w.today - (6 - k))]

\* Storage.getWeeklyStats: the entries in the order they were put in the
\* object returned (i = 6 down to 0); {} where the store is not available.
getWeeklyStats(w) ==
  IF ~w.storage.isAvailable THEN <<>>
  ELSE [k \in 1..(6 + 1) |-> WeeklyEntry(w, w.today - (6 + 1 - k))]

\* saveSettings() that does not look at isAvailable.
saveSettingsUnchecked(w, settings) ==
  Catch(Then(setItem(w, SETTINGS, stringify(ObjectValue(settings))),
             LAMBDA v : Return(v, TRUE)),
        LAMBDA v : Return(v, FALSE))

\* Storage.saveSettings
saveSettings(w, settings) ==
  IF ~w.storage.isAvailable THEN Return(w, FALSE)
  ELSE Catch(Then(setItem(w, SETTINGS, stringify(ObjectValue(settings))),
                  LAMBDA v : Return(v, TRUE)),
             LAMBDA v : Return(v, FALSE))

\* Storage.getSettings
getSettings(w) ==
  IF ~w.storage.isAvailable \/ ~w.localStorage.up THEN DefaultSettings
  ELSE safeJsonParse(w, SETTINGS, ObjectValue(DefaultSettings)).props

\* Storage.getAllTasks
getAllTasks(w) ==
  IF ~w.storage.isAvailable \/ ~w.localStorage.up THEN ArrayValue(<<>>)
  ELSE safeJsonParse(w, TASK_HISTORY, ArrayValue(<<>>))

\* Storage.saveTask: push needs the parsed history to be an array.
saveTask(w, task) ==
  IF ~w.storage.isAvailable THEN Return(w, FALSE)
  ELSE Catch(Then(IF getAllTasks(w).isArray
                  THEN setItem(w, TASK_HISTORY,
                               stringify([getAllTasks(w) EXCEPT !.items =
                                            Append(@, [task |-> task, date |-> getDateKey(w)])]))
                  ELSE ThrowError(w, "taskHistory.push is not a function"),
                  LAMBDA v : Return(v, TRUE)),
             LAMBDA v : Return(v, FALSE))

\* Storage.clearHistory
clearHistory(w) ==
  IF ~w.storage.isAvailable THEN Return(w, FALSE)
  ELSE Catch(Then(setItem(w, TASK_HISTORY, stringify(ArrayValue(<<>>))),
                  LAMBDA v : Return(v, TRUE)),
             LAMBDA v : Return(v, FALSE))

\* Storage.#initializeStorage, on the items found: each item is written only
\* if localStorage has none under its key.
InitItem(items, key, text) ==
  IF key \in DOMAIN items THEN items ELSE (key :> text) @@ items

initializeStorage(items) ==
  InitItem(InitItem(InitItem(items, SETTINGS, stringify(ObjectValue(DefaultSettings))),
                    TASK_HISTORY, stringify(ArrayValue(<<>>))),
           STATISTICS, stringify(ObjectValue(ZeroStats)))

\* new Storage(), on a browser profile that has stored nothing yet:
\* isAvailable is whether localStorage worked when it was probed.
NewStorage(up) == [isAvailable |-> up]
NewLocalStorage(up) ==
  [up |-> up, items |-> IF up THEN initializeStorage(<<>>) ELSE <<>>]

\* storage.incrementSessions(), as main.js calls it: today's sessions += 1.
incrementSessions(w) == [w EXCEPT !.stats.sessions = @ + 1]

\* ------------------------------------------------------------- App: observers
\* App.handleError
handleError(w, message) == showNotification(w, message)

\* App.completeSession.  Its own try/catch turns a failure into handleError.
completeSession(w) ==
  Catch(Then(incrementSessions([w EXCEPT !.app.sessionCount = @ + 1]),
             LAMBDA v : showNotification(v, "Session N completed!")),
        LAMBDA v : handleError(v, "Failed to complete session"))

\* App.startBreak
startBreak(w) ==
  showNotification([w EXCEPT !.app.isBreakMode = TRUE], "Break time!")

\* App.onTimerComplete.  An async function: nothing it throws reaches its
\* caller, and its continuations run before the host delivers the next event,
\* so the handler is one step.  The task is completed with completeTask(task),
\* one argument: the duration parameter is undefined.
saveCompletedTask(w) ==
  IF w.app.currentTask # NoTask
  THEN Then(completeTask(w, w.app.currentTask, Missing),
            LAMBDA v : [v EXCEPT !.app.currentTask = NoTask])
  ELSE w

handleSessionCompletion(w) ==
  IF w.app.isBreakMode THEN completeSession(w) ELSE startBreak(w)

onTimerComplete(w) ==
  Catch(Then(Then(saveCompletedTask(w),
                  LAMBDA v : showNotification(v, "Session completed!")),
             handleSessionCompletion),
        LAMBDA v : handleError(v, "Failed to complete session"))

\* App.onTimerTick and App.onTimerStateChange: calls on the presentation only.
onTimerTick(w) == w
onTimerStateChange(w) == w
\* ------------------------------------------------------------- Timer
\* Timer.getRemainingTime
getRemainingTime(w) ==
  [minutes |-> w.timer.remainingTime \div 60, seconds |-> w.timer.remainingTime % 60]

\* getProgress() that reports the share still to run.
getProgressOfRemaining(w) ==
  IF w.timer.duration = 0 THEN <<0, 1>>
  ELSE <<w.timer.remainingTime * 100, w.timer.duration>>

\* Timer.getProgress, as the fraction <<numerator, denominator>> of the
\* percentage (the source computes it in floating point).
getProgress(w) ==
  IF w.timer.duration = 0 THEN <<0, 1>>
  ELSE <<(w.timer.duration - w.timer.remainingTime) * 100, w.timer.duration>>

\* The body of the i-th callback registered for the event, called with args.
\* A callback may call the Timer's public methods, which are defined below.
RECURSIVE start(_), pause(_), reset(_)
Body(w, kind, event) ==
  CASE kind = OK -> w
    [] kind = THROWS -> Throw(w)
    [] kind = STARTS -> start(w)
    [] kind = PAUSES -> pause(w)
    [] kind = RESETS -> reset(w)
    [] kind = APP /\ event = "tick" -> onTimerTick(w)
    [] kind = APP /\ event = "complete" -> onTimerComplete(w)
    [] kind = APP /\ event = "stateChange" -> onTimerStateChange(w)

Callback(w, event, i, args) ==
  Body([w EXCEPT !.probe.fired = Append(@, [event |-> event, idx |-> i, args |-> args])],
       w.timer.callbacks[event][i], event)

\* The same call without the try/catch around it.
CallbackUnguarded(w, event, i, args) == Callback(w, event, i, args)

\* try { callback(...) } catch (error) { console.error(...) }
TryCallback(w, event, i, args) ==
  Catch(Callback(w, event, i, args), LAMBDA v : [v EXCEPT !.probe.logged = @ + 1])

\* this.#callbacks[event].forEach(...), from the i-th callback on.  The tick
\* callbacks' arguments are evaluated at each call.
RECURSIVE forEach(_, _, _, _)
forEach(w, event, i, given) ==
  IF w.exc \/ i > Len(w.timer.callbacks[event]) THEN w
  ELSE forEach(TryCallback(w, event, i,
                           IF event = "tick"
                           THEN <<getRemainingTime(w), getProgress(w)>>
                           ELSE given),
               event, i + 1, given)

\* #setState() without the test for an unchanged state.
setStateAlways(w, newState) ==
  forEach([w EXCEPT !.timer.state = newState], "stateChange", 1,
          <<newState, w.timer.state>>)

\* Timer.#setState
setState(w, newState) ==
  IF w.timer.state = newState THEN w
  ELSE forEach([w EXCEPT !.timer.state = newState], "stateChange", 1,
               <<newState, w.timer.state>>)

\* setInterval: a new periodic source, with an id no live source or handle has.
FreshId(w) ==
  CHOOSE n \in 1..(Cardinality(w.intervals) + 2) :
    /\ n \notin w.intervals /\ n # w.timer.intervalId
    /\ \A m \in 1..(n - 1) : m \in w.intervals \/ m = w.timer.intervalId

setInterval(w) ==
  [w EXCEPT !.intervals = @ \cup {FreshId(w)}, !.timer.intervalId = FreshId(w)]

\* if (this.#intervalId) { clearInterval(this.#intervalId); this.#intervalId = null; }
clearInterval(w) ==
  IF w.timer.intervalId # Null
  THEN [w EXCEPT !.intervals = @ \ {w.timer.intervalId}, !.timer.intervalId = Null]
  ELSE w

\* start() with the check of the Running state left out.
startUnguarded(w) == Then(setState(w, RUNNING), setInterval)

\* Timer.start
start(w) ==
  IF w.timer.state = RUNNING THEN w
  ELSE Then(setState(w, RUNNING), setInterval)

\* pause() that also rewinds the countdown to the whole duration.
pauseRewinding(w) ==
  IF w.timer.state # RUNNING THEN w
  ELSE Then(setState([w EXCEPT !.timer.remainingTime = w.timer.duration], PAUSED),
            clearInterval)

\* Timer.pause
pause(w) ==
  IF w.timer.state # RUNNING THEN w
  ELSE Then(setState(w, PAUSED), clearInterval)

\* reset() that leaves the remaining time alone.
resetKeepingRemaining(w) ==
  Then(setState([w EXCEPT !.probe.elapsed = 0, !.probe.tickSeen = <<>>,
                          !.probe.completions = 0], IDLE),
       clearInterval)

\* Timer.reset.  The counts the probe keeps "since the last reset" start over.
reset(w) ==
  Then(setState([w EXCEPT !.timer.remainingTime = w.timer.duration,
                          !.probe.elapsed = 0, !.probe.tickSeen = <<>>,
                          !.probe.completions = 0], IDLE),
       clearInterval)

\* setDuration() that does not reset.
setDurationWithoutReset(w, seconds) == [w EXCEPT !.timer.duration = seconds]

\* Timer.setDuration
setDuration(w, seconds) == reset([w EXCEPT !.timer.duration = seconds])

\* Timer.#complete
complete(w) ==
  Then(setState(clearInterval(w), COMPLETED),
       LAMBDA v : forEach([v EXCEPT !.probe.completions = @ + 1], "complete", 1, <<>>))

\* #tick() that completes as soon as the decrement reaches zero.
tickEager(w) ==
  IF w.timer.remainingTime - 1 <= 0
  THEN complete([w EXCEPT !.timer.remainingTime = @ - 1, !.probe.elapsed = @ + 1])
  ELSE forEach([w EXCEPT !.timer.remainingTime = @ - 1, !.probe.elapsed = @ + 1,
                         !.probe.tickSeen = Append(@, w.timer.remainingTime - 1)],
               "tick", 1, <<>>)

\* Timer.#tick, the interval's callback
tick(w) ==
  IF w.timer.remainingTime <= 0
  THEN complete([w EXCEPT !.probe.elapsed = @ + 1])
  ELSE forEach([w EXCEPT !.timer.remainingTime = @ - 1, !.probe.elapsed = @ + 1,
                         !.probe.tickSeen = Append(@, w.timer.remainingTime - 1)],
               "tick", 1, <<>>)

\* One clock unit of the host: every periodic source that is still active when
\* its turn comes runs its callback once, in the order the sources were made.
\* An exception that leaves a callback is reported by the host and dropped.
RECURSIVE fireIntervals(_, _)
Least(ids) == CHOOSE n \in ids : \A m \in ids : n <= m

\* The host runs a source's callback and reports what it throws.
Host(w) == [w EXCEPT !.exc = FALSE, !.probe.escaped = @ \/ w.exc]

fireIntervals(w, ids) ==
  IF ids = {} THEN w
  ELSE fireIntervals(IF Least(ids) \in w.intervals THEN Host(tick(w)) ELSE w,
                     ids \ {Least(ids)})
\* ------------------------------------------------------------- App: intents
\* taskManager.createTask(text), as main.js calls it: the task made current,
\* which the model identifies with its text.
createTask(text) == text

\* handleStart() without the check for a task.
handleStartUnchecked(w) ==
  Catch(start(w), LAMBDA v : handleError(v, "Failed to start timer"))

\* App.handleStart.  The duration it computes is passed to Timer.start, which
\* takes no parameter.
handleStart(w) ==
  IF w.app.currentTask = NoTask /\ ~w.app.isBreakMode
  THEN showNotification(w, "Please enter a task first")
  ELSE Catch(start(w), LAMBDA v : handleError(v, "Failed to start timer"))

\* App.handlePause
handlePause(w) ==
  Catch(pause(w), LAMBDA v : handleError(v, "Failed to pause timer"))

\* handleReset() that leaves the mode as it is.
handleResetKeepingMode(w) ==
  Catch(Then(reset(w), LAMBDA v : [v EXCEPT !.app.currentTask = NoTask]),
        LAMBDA v : handleError(v, "Failed to reset timer"))

\* App.handleReset
handleReset(w) ==
  Catch(Then(reset(w),
             LAMBDA v : [v EXCEPT !.app.currentTask = NoTask, !.app.isBreakMode = FALSE]),
        LAMBDA v : handleError(v, "Failed to reset timer"))

\* handleTaskSubmit() that tests and keeps the text as it was typed.
handleTaskSubmitUntrimmed(w, value) ==
  IF value = <<>>
  THEN showNotification(w, "Please enter a task description")
  ELSE [w EXCEPT !.app.currentTask = createTask(value), !.app.isBreakMode = FALSE]

\* App.handleTaskSubmit, on the text of the task input
handleTaskSubmit(w, value) ==
  IF Trim(value) = <<>>
  THEN showNotification(w, "Please enter a task description")
  ELSE [w EXCEPT !.app.currentTask = createTask(Trim(value)), !.app.isBreakMode = FALSE]

\* ------------------------------------------------------------- state machine
\* Texts of at most MaxText characters.
Texts == UNION {[1..n -> Chars] : n \in 0..MaxText}

\* Lists of at most MaxObservers callbacks that return or throw.
Registries == UNION {[1..n -> {OK, THROWS}] : n \in 0..MaxObservers}

\* Timer.on: the callback is added to the event's list.
on(t, event, callback) ==
  IF event \in DOMAIN t.callbacks
  THEN [t EXCEPT !.callbacks[event] = Append(@, callback)]
  ELSE t

\* new Timer(duration)
NewTimer(duration, observers) ==
  [duration |-> duration, remainingTime |-> duration, state |-> IDLE,
   intervalId |-> Null,
   callbacks |-> [tick |-> observers, complete |-> observers, stateChange |-> observers]]

\* new App(): no task, work mode, no session counted, the default settings.
NewApp ==
  [currentTask |-> NoTask, isBreakMode |-> FALSE, sessionCount |-> 0,
   settings |-> [workDuration |-> DEFAULT_WORK_DURATION,
                 breakDuration |-> DEFAULT_BREAK_DURATION]]

\* new TaskManager(storage)
NewLedger == [currentTask |-> NoTask, completedTasks |-> <<>>]

NoArg == <<>>

\* The statistics of a day nothing was recorded on.
NewStats == [sessions |-> 0, totalMinutes |-> 0]

\* The state around a newly constructed Timer and a Storage constructed on a
\* localStorage that works (up) or does not, on day 1.
Setup(t, up) ==
  /\ timer = t
  /\ intervals = {}
  /\ app = NewApp
  /\ ledger = NewLedger
  /\ stats = NewStats
  /\ today = 1
  /\ storage = NewStorage(up)
  /\ localStorage = NewLocalStorage(up)
  /\ probe = NewProbe
  /\ last = [op |-> "new", arg |-> NoArg,
             pre |-> [timer |-> t, intervals |-> {}, app |-> NewApp,
                      ledger |-> NewLedger, stats |-> NewStats, today |-> 1,
                      storage |-> NewStorage(up),
                      localStorage |-> NewLocalStorage(up)]]

\* The same, where localStorage works.
Fresh(t) == Setup(t, TRUE)

\* A Timer on its own: each observer registers one callback per event class,
\* and some observers throw.
Init == \E d \in Durations, obs \in Registries : Fresh(NewTimer(d, obs))

\* The coordinator with its Timer, wired as App.init does: the App's three
\* handlers are the observers.
AppInit == \E d \in Durations : Fresh(NewTimer(d, <<APP>>))

\* A Timer with one observer, of a stateChange or complete event, that calls
\* start(), pause() or reset() on the Timer from inside the callback.
ReentrantInit ==
  \E d \in Durations, event \in {"stateChange", "complete"},
     callback \in {STARTS, PAUSES, RESETS} :
    Fresh(on(NewTimer(d, <<>>), event, callback))

\* The host is not driven beyond MaxSources live periodic sources.
SourcesBounded == Cardinality(intervals) < MaxSources

\* What the operation op, called with arg, leaves in last.
Did(op, arg) == [op |-> op, arg |-> arg, pre |-> Core(World)]

\* The operation took the program from World to w.
Becomes(w) ==
  /\ timer' = w.timer
  /\ intervals' = w.intervals
  /\ app' = w.app
  /\ ledger' = w.ledger
  /\ stats' = w.stats
  /\ today' = w.today
  /\ storage' = w.storage
  /\ localStorage' = w.localStorage
  /\ probe' = [w.probe EXCEPT !.escaped = @ \/ w.exc]

Start ==
  /\ SourcesBounded
  /\ last' = Did("start", NoArg)
  /\ Becomes(start(World))

Pause ==
  /\ SourcesBounded
  /\ last' = Did("pause", NoArg)
  /\ Becomes(pause(World))

Reset ==
  /\ SourcesBounded
  /\ last' = Did("reset", NoArg)
  /\ Becomes(reset(World))

SetDuration ==
  \E seconds \in Durations :
    /\ SourcesBounded
    /\ last' = Did("setDuration", <<seconds>>)
    /\ Becomes(setDuration(World, seconds))

\* A clock unit passes: the host runs the callbacks of its periodic sources.
ClockTick ==
  /\ SourcesBounded
  /\ probe.completions < MaxCompletions
  /\ app.sessionCount < MaxSessions
  /\ last' = Did("tick", NoArg)
  /\ Becomes(fireIntervals(World, intervals))

HandleStart ==
  /\ last' = Did("handleStart", NoArg)
  /\ Becomes(handleStart(World))

HandlePause ==
  /\ last' = Did("handlePause", NoArg)
  /\ Becomes(handlePause(World))

HandleReset ==
  /\ last' = Did("handleReset", NoArg)
  /\ Becomes(handleReset(World))

HandleTaskSubmit ==
  \E value \in Texts :
    /\ last' = Did("handleTaskSubmit", value)
    /\ Becomes(handleTaskSubmit(World, value))

\* App.startBreak called from outside the complete handler (the constructor
\* binds it for use as a callback).
StartBreak ==
  /\ ~app.isBreakMode
  /\ last' = Did("startBreak", NoArg)
  /\ Becomes(startBreak(World))

\* The Timer driven directly.
Next == Start \/ Pause \/ Reset \/ SetDuration \/ ClockTick

Spec == Init /\ [][Next]_vars

\* The Timer driven directly, with an observer that calls back into it.
ReentrantSpec == ReentrantInit /\ [][Next]_vars

\* The coordinator driven by the user's intents and the clock.
AppNext == HandleStart \/ HandlePause \/ HandleReset \/ HandleTaskSubmit \/ ClockTick

AppSpec == AppInit /\ [][AppNext]_vars

\* The same, with break mode also entered by a direct call of startBreak.
BreakNext == AppNext \/ StartBreak

BreakSpec == AppInit /\ [][BreakNext]_vars

\* ---- the task ledger on its own
\* The task names the ledger is called with: none, blank, plain, padded with
\* a blank, and one that reads as a number.
TaskNames == {<<>>, <<" ">>, <<"a">>, <<" ", "a">>, <<"1">>}

\* Durations handed to the ledger: negative, none (undefined or 0), positive.
Minutes == (0 - 1)..MaxMinutes

\* Limits handed to getMostProductiveTasks, likewise.
Limits == (0 - 1)..MaxLimit

\* new TaskManager(storage), with a Timer that plays no part.
LedgerInit == Fresh(NewTimer(MaxDuration, <<>>))

SetCurrentTask ==
  \E taskName \in TaskNames :
    /\ last' = Did("setCurrentTask", <<taskName>>)
    /\ Becomes(setCurrentTask(World, taskName))

ClearCurrentTask ==
  /\ last' = Did("clearCurrentTask", NoArg)
  /\ Becomes(clearCurrentTask(World))

CompleteCurrentTask ==
  \E duration \in Minutes :
    /\ Len(ledger.completedTasks) < MaxHistory
    /\ last' = Did("completeCurrentTask", <<duration>>)
    /\ Becomes(completeCurrentTask(World, duration))

CompleteTask ==
  \E taskName \in TaskNames, duration \in Minutes :
    /\ Len(ledger.completedTasks) < MaxHistory
    /\ last' = Did("completeTask", <<taskName, duration>>)
    /\ Becomes(completeTask(World, taskName, duration))

GetMostProductiveTasks ==
  \E limit \in Limits :
    /\ last' = Did("getMostProductiveTasks", <<limit>>)
    /\ Becomes(getMostProductiveTasks(World, limit))

LedgerNext ==
  \/ SetCurrentTask
  \/ ClearCurrentTask
  \/ CompleteCurrentTask
  \/ CompleteTask
  \/ GetMostProductiveTasks

LedgerSpec == LedgerInit /\ [][LedgerNext]_vars

\* ---- the ledger's streaks over the days
\* Midnight passes.
DayPasses ==
  /\ today < MaxDay
  /\ last' = Did("dayPasses", NoArg)
  /\ Becomes([World EXCEPT !.today = @ + 1])

\* A task of one minute is completed today.
CompleteTaskToday ==
  /\ Len(ledger.completedTasks) < MaxHistory
  /\ last' = Did("completeTask", <<<<"a">>, 1>>)
  /\ Becomes(completeTask(World, <<"a">>, 1))

GetStreakInfo ==
  /\ last' = Did("getStreakInfo", NoArg)
  /\ Becomes(getStreakInfo(World))

StreakNext == CompleteTaskToday \/ DayPasses \/ GetStreakInfo

StreakSpec == LedgerInit /\ [][StreakNext]_vars

\* ---- the store on its own
\* Settings the store is given to save.
SettingsChoices ==
  {DefaultSettings, [workDuration |-> MaxDuration, breakDuration |-> 1]}

\* new Storage(), where localStorage works or does not.
StoreInit == \E up \in BOOLEAN : Setup(NewTimer(MaxDuration, <<>>), up)

\* localStorage stops working, or works again (the browser's site settings).
BackendChanges ==
  /\ last' = Did("backendChanges", NoArg)
  /\ Becomes([World EXCEPT !.localStorage.up = ~@])

IncrementSessionCount ==
  /\ last' = Did("incrementSessionCount", NoArg)
  /\ Becomes(incrementSessionCount(World))

ResetDailyStats ==
  /\ last' = Did("resetDailyStats", NoArg)
  /\ Becomes(resetDailyStats(World))

GetTodaysStats ==
  /\ last' = Did("getTodaysStats", NoArg)
  /\ Becomes(Return(World, getTodaysStats(World)))

GetWeeklyStats ==
  /\ last' = Did("getWeeklyStats", NoArg)
  /\ Becomes(Return(World, getWeeklyStats(World)))

SaveSettings ==
  \E settings \in SettingsChoices :
    /\ last' = Did("saveSettings", <<settings>>)
    /\ Becomes(saveSettings(World, settings))

GetSettings ==
  /\ last' = Did("getSettings", NoArg)
  /\ Becomes(Return(World, getSettings(World)))

SaveTask ==
  /\ Len(getAllTasks(World).items) < MaxHistory
  /\ last' = Did("saveTask", <<[name |-> <<"a">>, duration |-> 1]>>)
  /\ Becomes(saveTask(World, [name |-> <<"a">>, duration |-> 1]))

GetAllTasks ==
  /\ last' = Did("getAllTasks", NoArg)
  /\ Becomes(Return(World, getAllTasks(World)))

ClearHistory ==
  /\ last' = Did("clearHistory", NoArg)
  /\ Becomes(clearHistory(World))

StoreNext ==
  \/ IncrementSessionCount
  \/ ResetDailyStats
  \/ GetTodaysStats
  \/ GetWeeklyStats
  \/ SaveSettings
  \/ GetSettings
  \/ SaveTask
  \/ GetAllTasks
  \/ ClearHistory
  \/ DayPasses
  \/ BackendChanges

StoreSpec == StoreInit /\ [][StoreNext]_vars

\* ------------------------------------------------------------- properties
\* The world of the state an operation started in, and of the current state.
Before == last.pre @@ [exc |-> FALSE, probe |-> NewProbe]
Now == Core(World)

\* Fractions compared.
FracLeq(p, q) == p[1] * q[2] <= q[1] * p[2]
FracIs(p, n) == p[1] = n * p[2]

\* The callback invocations of the last operation for one event class.
Fired(event) == SelectSeq(probe.fired, LAMBDA f : f.event = event)

\* The remaining seconds d-1, d-2, ..., d-k.
CountDown(d, k) == [i \in 1..k |-> d - i]

\* The last operation was a clock unit in which the Timer's interval fired,
\* for the k-th time since the reset.
AfterTick(k) == last.op = "tick" /\ last.pre.intervals # {} /\ probe.elapsed = k

\* C1, as claimed: the d-th clock tick after the reset completes the Timer:
\* the state is Completed, complete has fired once, and tick has fired d-1
\* times, for the remaining values d-1 down to 1.
C1_CompletesOnTickD ==
  AfterTick(timer.duration) =>
    /\ timer.state = COMPLETED
    /\ probe.completions = 1
    /\ probe.tickSeen = CountDown(timer.duration, timer.duration - 1)

\* C1, amended: the Timer completes on tick d+1.  Each of the first d ticks
\* decrements and fires tick, for the remaining values d-1 down to 0, and
\* leaves the Timer Running with no completion; tick d+1 finds 0 remaining,
\* makes the state Completed and fires the complete callbacks once each and
\* no tick callback.
C1_CompletesOnTickDPlus1 ==
  /\ \A k \in 1..timer.duration :
       AfterTick(k) =>
         /\ timer.state = RUNNING
         /\ probe.completions = 0
         /\ probe.tickSeen = CountDown(timer.duration, k)
         /\ Len(Fired("tick")) = Len(timer.callbacks.tick)
         /\ Fired("complete") = <<>>
  /\ AfterTick(timer.duration + 1) =>
       /\ timer.state = COMPLETED
       /\ probe.completions = 1
       /\ probe.tickSeen = CountDown(timer.duration, timer.duration)
       /\ Len(Fired("complete")) = Len(timer.callbacks.complete)
       /\ Fired("tick") = <<>>

\* A Timer of the longest duration, with observers, has just completed.
C1_Witness ==
  /\ AfterTick(timer.duration + 1)
  /\ timer.duration = MaxDuration
  /\ timer.state = COMPLETED
  /\ Len(timer.callbacks.tick) > 0

\* C2: start() on a Running Timer changes nothing (state, remaining time,
\* handle and the host's periodic sources) and calls no observer; there is
\* never more than one periodic source, and a clock unit that finds the Timer
\* Running with time remaining takes exactly one second off.
C2_StartWhileRunningIsNoOp ==
  /\ (last.op = "start" /\ last.pre.timer.state = RUNNING) =>
       /\ Now = last.pre
       /\ probe.fired = <<>>
  /\ Cardinality(intervals) <= 1
  /\ (/\ last.op = "tick"
      /\ last.pre.timer.state = RUNNING
      /\ last.pre.timer.remainingTime > 0) =>
       timer.remainingTime = last.pre.timer.remainingTime - 1

\* start() was called on a Timer that was running, part of its time gone.
C2_Witness ==
  /\ last.op = "start"
  /\ last.pre.timer.state = RUNNING
  /\ last.pre.timer.remainingTime < last.pre.timer.duration

\* C3: pause() and start() leave the remaining time as it was, and a clock
\* unit that passes while the Timer is Paused changes nothing (a Paused Timer
\* has no periodic source), so a resumed countdown continues from the value
\* it was paused at.
C3_PauseResumeKeepsRemaining ==
  /\ last.op \in {"pause", "start"} =>
       timer.remainingTime = last.pre.timer.remainingTime
  /\ timer.state = PAUSED => intervals = {}
  /\ (last.op = "tick" /\ last.pre.timer.state = PAUSED) =>
       (Now = last.pre /\ probe.fired = <<>>)

\* A countdown paused part-way has been resumed.
C3_Witness ==
  /\ last.op = "start"
  /\ last.pre.timer.state = PAUSED
  /\ timer.state = RUNNING
  /\ timer.remainingTime > 0
  /\ timer.remainingTime < timer.duration

\* The Timer is as reset() leaves it.
IsReset(w) ==
  /\ w.timer.state = IDLE
  /\ w.timer.remainingTime = w.timer.duration
  /\ w.timer.intervalId = Null
  /\ w.intervals = {}

\* C4: after reset(), from whatever state, the Timer is Idle with the whole
\* duration remaining and no periodic source; a second reset() changes
\* nothing and calls no observer.
C4_ResetIdempotent ==
  last.op = "reset" =>
    /\ IsReset(Now)
    /\ timer.duration = last.pre.timer.duration
    /\ Core(reset(World)) = Now
    /\ reset(World).probe.fired = <<>>
    /\ IsReset(last.pre) => (Now = last.pre /\ probe.fired = <<>>)

\* reset() was called on a completed Timer.
C4_Witness ==
  /\ last.op = "reset"
  /\ last.pre.timer.state = COMPLETED

\* getProgress() does not decrease over a clock tick, and is 0 right after
\* start() on a Timer with its whole duration remaining.
ProgressGrowsFromZero ==
  /\ last.op = "tick" => FracLeq(getProgress(Before), getProgress(World))
  /\ (last.op = "start" /\ timer.remainingTime = timer.duration) =>
       FracIs(getProgress(World), 0)

\* C5, as claimed: getProgress() does not decrease over a tick, is 0 right
\* after start() on a reset Timer, and is 100 only once the Timer has
\* completed (never while it is still Running towards its first completion).
C5_HundredOnlyCompleted ==
  /\ ProgressGrowsFromZero
  /\ FracIs(getProgress(World), 100) => probe.completions >= 1

\* C5, amended: getProgress() does not decrease over a tick and is 0 right
\* after start() on a reset Timer; it is 100 exactly when no time remains,
\* which is first the case after tick d, with the Timer still Running and not
\* yet completed, and it stays 100 when the next tick completes the Timer.
C5_HundredWhenNothingRemains ==
  /\ ProgressGrowsFromZero
  /\ FracIs(getProgress(World), 100) <=> timer.remainingTime = 0
  /\ FracIs(getProgress(World), 100) => probe.elapsed >= timer.duration
  /\ AfterTick(timer.duration) =>
       /\ FracIs(getProgress(World), 100)
       /\ timer.state = RUNNING
       /\ probe.completions = 0
  /\ timer.state = COMPLETED => FracIs(getProgress(World), 100)

\* The Timer is Running with nothing remaining, before its first completion.
C5_Witness ==
  /\ AfterTick(timer.duration)
  /\ timer.duration > 1
  /\ timer.state = RUNNING
  /\ FracIs(getProgress(World), 100)

\* The world with every throwing callback replaced by one that returns.
Quiet(w) ==
  [w EXCEPT !.timer.callbacks =
     [e \in DOMAIN @ |-> [i \in DOMAIN @[e] |-> IF @[e][i] = THROWS THEN OK ELSE @[e][i]]]]

\* The operation named in last, on w.
Redo(w) ==
  CASE last.op = "start" -> start(w)
    [] last.op = "pause" -> pause(w)
    [] last.op = "reset" -> reset(w)
    [] last.op = "setDuration" -> setDuration(w, last.arg[1])
    [] last.op = "tick" -> fireIntervals(w, w.intervals)
    [] OTHER -> w

\* C6: whichever observers throw, an operation ends as it does when none
\* throws: the same state, remaining time, handle and periodic sources, and
\* the same callbacks invoked in the same order with the same arguments; each
\* throw is logged, and none leaves the operation.
C6_ObserverFailureIsolated ==
  last.op \in {"start", "pause", "reset", "setDuration", "tick"} =>
    /\ [timer EXCEPT !.callbacks = Quiet(World).timer.callbacks] = Redo(Quiet(Before)).timer
    /\ intervals = Redo(Quiet(Before)).intervals
    /\ probe.fired = Redo(Quiet(Before)).probe.fired
    /\ probe.logged =
         Len(SelectSeq(probe.fired, LAMBDA f : timer.callbacks[f.event][f.idx] = THROWS))
    /\ ~probe.escaped

\* The first complete observer threw and the second was still called.
C6_Witness ==
  /\ last.op = "tick"
  /\ Len(timer.callbacks.complete) = 2
  /\ timer.callbacks.complete[1] = THROWS
  /\ Len(Fired("complete")) = 2
  /\ timer.state = COMPLETED

\* C7, as claimed: the Timer becomes Completed only from Running, by a tick
\* that finds nothing remaining, and start(), pause() and clock ticks leave a
\* Completed Timer Completed (only reset() and setDuration() leave the state).
C7_CompletedIsTerminal ==
  /\ (timer.state = COMPLETED /\ last.pre.timer.state # COMPLETED) =>
       /\ last.op = "tick"
       /\ last.pre.timer.state = RUNNING
       /\ last.pre.timer.remainingTime <= 0
  /\ (last.pre.timer.state = COMPLETED /\ timer.state # COMPLETED) =>
       last.op \in {"reset", "setDuration"}

\* The last operation was a clock unit in which the App's complete handler ran.
CompleteHandled == last.op = "tick" /\ Fired("complete") # <<>>

\* C8, as claimed: when the complete event is handled in break mode, the
\* coordinator is back in work mode afterwards, and the session counter and
\* today's stored sessions and minutes are what they were.
C8_BreakCompletionReturnsToWork ==
  (CompleteHandled /\ last.pre.app.isBreakMode) =>
    /\ ~app.isBreakMode
    /\ app.sessionCount = last.pre.app.sessionCount
    /\ stats = last.pre.stats

\* C9, as claimed: when the complete event is handled in work mode, today's
\* sessions go up by one, today's minutes by the configured work duration,
\* and the coordinator is in break mode afterwards.
C9_WorkCompletionCountsSession ==
  (CompleteHandled /\ ~last.pre.app.isBreakMode) =>
    /\ stats.sessions = last.pre.stats.sessions + 1
    /\ stats.totalMinutes = last.pre.stats.totalMinutes + last.pre.app.settings.workDuration
    /\ app.isBreakMode

\* C10: handleStart() in work mode with no current task shows the
\* missing-task warning and nothing else: the Timer (state, remaining time,
\* periodic source), the mode, the task and the session counter are as
\* before, and no observer of the Timer is called.
C10_StartWithoutTaskRejected ==
  (/\ last.op = "handleStart"
   /\ last.pre.app.currentTask = NoTask
   /\ ~last.pre.app.isBreakMode) =>
    /\ probe.notices = <<"Please enter a task first">>
    /\ Now = last.pre
    /\ probe.fired = <<>>

\* handleStart() was called with no task, in work mode, and warned.
C10_Witness ==
  /\ last.op = "handleStart"
  /\ last.pre.app.currentTask = NoTask
  /\ ~last.pre.app.isBreakMode
  /\ timer.state = IDLE
  /\ probe.notices # <<>>

\* C11: handleReset(), whatever state the coordinator is in, leaves the Timer
\* Idle with its whole duration remaining and no periodic source, no current
\* task, and work mode; the session counter, the stored statistics, the
\* ledger and localStorage are what they were, and nothing is thrown.
C11_ResetClearsTaskAndMode ==
  last.op = "handleReset" =>
    /\ IsReset(Now)
    /\ timer.duration = last.pre.timer.duration
    /\ app.currentTask = NoTask
    /\ ~app.isBreakMode
    /\ app.sessionCount = last.pre.app.sessionCount
    /\ stats = last.pre.stats
    /\ ledger = last.pre.ledger
    /\ localStorage = last.pre.localStorage
    /\ ~probe.escaped

\* handleReset() was called in break mode, a session counted, a task set
\* and the Timer running.
C11_Witness ==
  /\ last.op = "handleReset"
  /\ last.pre.app.isBreakMode
  /\ last.pre.app.currentTask # NoTask
  /\ last.pre.app.sessionCount > 0
  /\ last.pre.timer.state = RUNNING
  /\ timer.state = IDLE

\* C12: completeCurrentTask(d) with no current task throws "No active task to
\* complete" for every d; with a current task and d <= 0 (or no d) it throws
\* "Duration must be a positive number"; setCurrentTask(name) throws "Task
\* name must be a non-empty string" for every empty or blank name; and in
\* each case the current task and the completed tasks are as before the call.
C12_RejectionsLeaveLedgerUnchanged ==
  /\ (last.op = "completeCurrentTask" /\ last.pre.ledger.currentTask = NoTask) =>
       /\ probe.escaped
       /\ probe.error = "No active task to complete"
       /\ Now = last.pre
  /\ (/\ last.op = "completeCurrentTask"
      /\ last.pre.ledger.currentTask # NoTask
      /\ last.arg[1] <= 0) =>
       /\ probe.escaped
       /\ probe.error = "Duration must be a positive number"
       /\ Now = last.pre
  /\ (last.op = "setCurrentTask" /\ \A i \in 1..Len(last.arg[1]) : last.arg[1][i] = " ") =>
       /\ probe.escaped
       /\ probe.error = "Task name must be a non-empty string"
       /\ Now = last.pre

\* setCurrentTask(" ") was rejected by a ledger that has a current task and
\* a completed one.
C12_Witness ==
  /\ last.op = "setCurrentTask"
  /\ last.arg = <<<<" ">>>>
  /\ probe.escaped
  /\ ledger.currentTask # NoTask
  /\ ledger.completedTasks # <<>>

\* The completed tasks before position i that have the name of the i-th.
EarlierSameName(tasks, i) ==
  Cardinality({j \in 1..(i - 1) : tasks[j].name = tasks[i].name})

\* C13: completeCurrentTask(d) with a current task and d > 0 succeeds; it
\* appends one record to the completed tasks and leaves the earlier ones as
\* they were; the record has the current task's trimmed name, duration d and
\* sessionCount 1 + the number of earlier records of that name, and is what
\* the call returns; no task is current afterwards.  So every record ever in
\* the history has a positive duration and a trimmed name, and the
\* sessionCounts of each name run 1, 2, ..., k in the order of the history.
C13_CompletionAppendsOneRecord ==
  /\ (/\ last.op = "completeCurrentTask"
      /\ last.pre.ledger.currentTask # NoTask
      /\ last.arg[1] > 0) =>
       /\ ~probe.escaped
       /\ Len(ledger.completedTasks) = Len(last.pre.ledger.completedTasks) + 1
       /\ SubSeq(ledger.completedTasks, 1, Len(last.pre.ledger.completedTasks))
            = last.pre.ledger.completedTasks
       /\ ledger.completedTasks[Len(ledger.completedTasks)].name
            = Trim(last.pre.ledger.currentTask)
       /\ ledger.completedTasks[Len(ledger.completedTasks)].duration = last.arg[1]
       /\ probe.result = ledger.completedTasks[Len(ledger.completedTasks)]
       /\ ledger.currentTask = NoTask
  /\ \A i \in 1..Len(ledger.completedTasks) :
       /\ ledger.completedTasks[i].duration > 0
       /\ ledger.completedTasks[i].name = Trim(ledger.completedTasks[i].name)
       /\ ledger.completedTasks[i].name # <<>>
       /\ ledger.completedTasks[i].sessionCount
            = 1 + EarlierSameName(ledger.completedTasks, i)

\* The current task was completed for the second time, a task of another
\* name having been completed in between.
C13_Witness ==
  /\ last.op = "completeCurrentTask"
  /\ ~probe.escaped
  /\ Len(ledger.completedTasks) = 3
  /\ ledger.completedTasks[3].sessionCount = 2
  /\ ledger.completedTasks[2].name # ledger.completedTasks[3].name
  /\ ledger.currentTask = NoTask

\* The days on which a task was completed.
CompletionDays == {ledger.completedTasks[i].completedAt : i \in 1..Len(ledger.completedTasks)}

\* n consecutive days from day on are all in days.
IsRun(days, day, n) == \A k \in 0..(n - 1) : day + k \in days

\* The length of the longest run of consecutive days in a set of days.
LongestRun(days) ==
  IF days = {} THEN 0
  ELSE CHOOSE n \in 1..Cardinality(days) :
         /\ \E day \in days : IsRun(days, day, n)
         /\ ~\E day \in days : IsRun(days, day, n + 1)

\* C14, as claimed: the longestStreak getStreakInfo() returns is the length of
\* the longest run of consecutive calendar days among the distinct
\* completion dates, wherever in the dates the run lies.
C14_LongestStreakIsLongestRun ==
  last.op = "getStreakInfo" => probe.result.longestStreak = LongestRun(CompletionDays)

\* The names in the completed tasks, and the position a name first occurs at.
HistoryNames == {ledger.completedTasks[i].name : i \in 1..Len(ledger.completedTasks)}
FirstAt(name) ==
  CHOOSE i \in 1..Len(ledger.completedTasks) :
    /\ ledger.completedTasks[i].name = name
    /\ \A j \in 1..(i - 1) : ledger.completedTasks[j].name # name

\* The minutes and the records of a name in the completed tasks.
RECURSIVE MinutesOf(_, _)
MinutesOf(name, n) ==
  IF n = 0 THEN 0
  ELSE MinutesOf(name, n - 1)
         + (IF ledger.completedTasks[n].name = name
            THEN ledger.completedTasks[n].duration ELSE 0)
RecordsOf(name) ==
  Cardinality({i \in 1..Len(ledger.completedTasks) : ledger.completedTasks[i].name = name})

\* Name a is listed before name b: more minutes, or as many and met first.
ListedBefore(a, b) ==
  \/ MinutesOf(a, Len(ledger.completedTasks)) > MinutesOf(b, Len(ledger.completedTasks))
  \/ /\ MinutesOf(a, Len(ledger.completedTasks)) = MinutesOf(b, Len(ledger.completedTasks))
     /\ FirstAt(a) < FirstAt(b)

\* C15, as claimed: getMostProductiveTasks(limit) with limit > 0 returns, and
\* returns the first limit entries (all, if there are fewer) of the list that
\* has one entry per name in the completed tasks, with the name's total
\* minutes and number of records, in order of non-increasing total, names of
\* equal total in the order they were first met; with limit <= 0 it throws
\* "Limit must be a positive number"; it never changes the completed tasks.
C15_MostProductiveInEncounterOrder ==
  /\ (last.op = "getMostProductiveTasks" /\ last.arg[1] > 0) =>
       /\ ~probe.escaped
       /\ Len(probe.result) =
            (IF last.arg[1] < Cardinality(HistoryNames)
             THEN last.arg[1] ELSE Cardinality(HistoryNames))
       /\ \A i \in 1..Len(probe.result) :
            /\ probe.result[i].name \in HistoryNames
            /\ probe.result[i].totalDuration
                 = MinutesOf(probe.result[i].name, Len(ledger.completedTasks))
            /\ probe.result[i].sessionCount = RecordsOf(probe.result[i].name)
            /\ \A j \in (i + 1)..Len(probe.result) :
                 ListedBefore(probe.result[i].name, probe.result[j].name)
            /\ \A name \in HistoryNames :
                 (\A j \in 1..Len(probe.result) : probe.result[j].name # name) =>
                   ListedBefore(probe.result[i].name, name)
  /\ (last.op = "getMostProductiveTasks" /\ last.arg[1] <= 0) =>
       /\ probe.escaped
       /\ probe.error = "Limit must be a positive number"
  /\ last.op = "getMostProductiveTasks" => Now = last.pre

\* C16, as claimed: where the store is available and localStorage works, an
\* incrementSessionCount() that returns true leaves getTodaysStats() with
\* sessions one greater than it was before the call, and totalMinutes and
\* tasks as they were (so n increments on a new store read back as n).
C16_IncrementAddsOneSession ==
  (last.op = "incrementSessionCount" /\ probe.result = TRUE) =>
    getTodaysStats(World) = [getTodaysStats(Before) EXCEPT !.sessions = @ + 1]

\* The record stored for a day, as far as localStorage lets it be read;
\* zeroes where there is none.
StoredStats(date) ==
  IF /\ localStorage.up
     /\ STATISTICS \in DOMAIN localStorage.items
     /\ localStorage.items[STATISTICS].json = "object"
     /\ date \in DOMAIN localStorage.items[STATISTICS].props
  THEN localStorage.items[STATISTICS].props[date]
  ELSE ZeroStats

\* The result is seven entries, for today and the six days before it, the
\* oldest first, each with the day's stored record or zeroes.
WeekReturned ==
  /\ Len(probe.result) = 7
  /\ \A k \in 1..7 :
       /\ probe.result[k].date = today - 7 + k
       /\ probe.result[k].stats = StoredStats(today - 7 + k)

\* getWeeklyStats() and getTodaysStats() throw nothing and change nothing,
\* and the same read made again returns the same.
ReadsArePure ==
  /\ last.op \in {"getWeeklyStats", "getTodaysStats"} =>
       (Now = last.pre /\ ~probe.escaped)
  /\ last.op = "getWeeklyStats" => getWeeklyStats(World) = probe.result
  /\ last.op = "getTodaysStats" => getTodaysStats(World) = probe.result

\* C17, as claimed: getWeeklyStats() returns exactly seven entries, for today
\* and the six days before it, oldest first, each the stored record of its
\* day or zeroes; and neither it nor getTodaysStats() changes what is stored.
C17_WeeklyAlwaysSevenEntries ==
  /\ last.op = "getWeeklyStats" => WeekReturned
  /\ ReadsArePure

\* C17, amended: on a store that found localStorage working when it was
\* constructed, getWeeklyStats() returns the seven entries; on a store that
\* did not, it returns an empty object; in both cases neither it nor
\* getTodaysStats() changes what is stored, and a repeated read returns the same.
C17_WeeklyReadsArePure ==
  /\ (last.op = "getWeeklyStats" /\ storage.isAvailable) => WeekReturned
  /\ (last.op = "getWeeklyStats" /\ ~storage.isAvailable) => probe.result = <<>>
  /\ ReadsArePure

\* getWeeklyStats() returned a week on a day after the first, history stored.
C17_Witness ==
  /\ last.op = "getWeeklyStats"
  /\ storage.isAvailable
  /\ localStorage.up
  /\ today > 1
  /\ Len(probe.result) = 7
  /\ getAllTasks(World).items # <<>>

\* The store cannot use localStorage: it found it not working when it was
\* constructed, or it is not working now.
Unavailable(w) == ~w.storage.isAvailable \/ ~w.localStorage.up

StoreWrites ==
  {"incrementSessionCount", "resetDailyStats", "saveSettings", "saveTask", "clearHistory"}
StoreReads == {"getTodaysStats", "getWeeklyStats", "getSettings", "getAllTasks"}

\* C18: no operation of the store throws; and where localStorage is not
\* available, incrementSessionCount, resetDailyStats, saveSettings, saveTask
\* and clearHistory return false and change nothing, getTodaysStats returns a
\* zeroed record, getSettings the default settings, getAllTasks no tasks.
C18_UnavailableStoreDegrades ==
  /\ last.op \in StoreWrites \cup StoreReads => ~probe.escaped
  /\ (last.op \in StoreWrites /\ Unavailable(last.pre)) =>
       (probe.result = FALSE /\ Now = last.pre)
  /\ (last.op = "getTodaysStats" /\ Unavailable(last.pre)) => probe.result = ZeroStats
  /\ (last.op = "getSettings" /\ Unavailable(last.pre)) => probe.result = DefaultSettings
  /\ (last.op = "getAllTasks" /\ Unavailable(last.pre)) => probe.result.items = <<>>

\* saveSettings() returned false on a store that found localStorage not
\* working when it was constructed, although it works now.
C18_Witness ==
  /\ last.op = "saveSettings"
  /\ ~storage.isAvailable
  /\ localStorage.up
  /\ probe.result = FALSE

\* The remaining time is never negative and never more than the duration.
RemainingInRange == 0 <= timer.remainingTime /\ timer.remainingTime <= timer.duration

\* The last step was a clock tick of a Running Timer that took one second off.
TickTookOneSecond ==
  /\ last.op = "tick"
  /\ last.pre.timer.state = RUNNING
  /\ timer.remainingTime = last.pre.timer.remainingTime - 1

\* C19, as claimed: the remaining time stays between 0 and the duration,
\* and every step that lowers it is a clock tick of a Running Timer that
\* lowers it by exactly 1.
C19_OnlyTicksLowerRemaining ==
  /\ RemainingInRange
  /\ timer.remainingTime < last.pre.timer.remainingTime => TickTookOneSecond

\* C19, amended: the remaining time stays between 0 and the duration, and
\* every step that lowers it is either a clock tick of a Running Timer that
\* lowers it by exactly 1, or a setDuration(s) with s less than the time
\* remaining, which leaves s remaining.
C19_TicksOrSetDurationLowerRemaining ==
  /\ RemainingInRange
  /\ timer.remainingTime < last.pre.timer.remainingTime =>
       \/ TickTookOneSecond
       \/ /\ last.op = "setDuration"
          /\ timer.remainingTime = last.arg[1]
          /\ timer.duration = last.arg[1]

\* setDuration() shortened a running countdown.
C19_Witness ==
  /\ last.op = "setDuration"
  /\ last.pre.timer.state = RUNNING
  /\ last.pre.timer.remainingTime < last.pre.timer.duration
  /\ timer.remainingTime < last.pre.timer.remainingTime

\* handleStart() was accepted and started a countdown (it did not resume one).
StartedCountdown ==
  /\ last.op = "handleStart"
  /\ last.pre.timer.state \in {IDLE, COMPLETED}
  /\ timer.state = RUNNING

\* C20, as claimed: an accepted handleStart() starts a countdown of the
\* mode's duration.  The Timer is constructed with the work duration, so in
\* work mode the whole of the Timer's duration remains, and in break mode
\* what remains is to it as the break setting is to the work setting.
C20_StartCountsModeDuration ==
  /\ (StartedCountdown /\ ~app.isBreakMode) => timer.remainingTime = timer.duration
  /\ (StartedCountdown /\ app.isBreakMode) =>
       timer.remainingTime * app.settings.workDuration
         = timer.duration * app.settings.breakDuration

\* The complete event was handled in work mode while a task was current.
WorkCompletedWithTask ==
  /\ CompleteHandled
  /\ ~last.pre.app.isBreakMode
  /\ last.pre.app.currentTask # NoTask

\* C21, as claimed: when a work session completes and a task is current, the
\* complete handler appends one record of that task to the history, with the
\* configured work duration as its minutes, and clears the current task; a
\* complete event handled in break mode leaves the history as it was.
C21_WorkCompletionRecordsTask ==
  /\ WorkCompletedWithTask =>
       /\ Len(ledger.completedTasks) = Len(last.pre.ledger.completedTasks) + 1
       /\ ledger.completedTasks[Len(ledger.completedTasks)].name
            = last.pre.app.currentTask
       /\ ledger.completedTasks[Len(ledger.completedTasks)].duration
            = last.pre.app.settings.workDuration
       /\ app.currentTask = NoTask
  /\ (CompleteHandled /\ last.pre.app.isBreakMode) =>
       ledger.completedTasks = last.pre.ledger.completedTasks

\* What the handler does in that case: completeTask throws for want of a
\* duration, the failure is reported, and the task stays current.
C21_TaskStaysCurrent ==
  WorkCompletedWithTask =>
    /\ ledger.completedTasks = last.pre.ledger.completedTasks
    /\ app.currentTask = last.pre.app.currentTask
    /\ probe.error = "Duration must be a positive number"
    /\ probe.notices = <<"Failed to complete session">>

\* C22, as claimed: work and break alternate.  A complete event handled in
\* work mode leaves the coordinator in a break (short or long), and a complete
\* event handled in a break leaves it in work mode.
C22_WorkAndBreakAlternate ==
  /\ (CompleteHandled /\ ~last.pre.app.isBreakMode) => app.isBreakMode
  /\ (CompleteHandled /\ last.pre.app.isBreakMode) => ~app.isBreakMode

\* The half of it that fails on its own account: a break that completes is
\* still a break.
C22_BreakFollowedByBreak ==
  (CompleteHandled /\ last.pre.app.isBreakMode) => app.isBreakMode

\* The other half: a work session that completes has a task current, the
\* handler fails on it before it reaches startBreak(), and work mode stays.
C22_WorkFollowedByWork ==
  (CompleteHandled /\ ~last.pre.app.isBreakMode) => ~app.isBreakMode

C23_RejectedWitness ==
  /\ last.op = "handleTaskSubmit"
  /\ last.arg # <<>>
  /\ Trim(last.arg) = <<>>
  /\ last.pre.app.isBreakMode
  /\ last.pre.app.currentTask # NoTask

\* The last operation took the Timer from one state to another.
Moved(from, to) == last.pre.timer.state = from /\ timer.state = to

\* C24, as claimed: every change of the Timer's state is Idle to Running or
\* Paused to Running by start(), Running to Paused by pause(), Running to
\* Completed by a tick with nothing remaining, or Idle, Paused or Completed to
\* Idle by reset(); and pause() outside Running changes nothing.
C24_OnlyListedTransitions ==
  /\ timer.state # last.pre.timer.state =>
       \/ last.op = "start" /\ (Moved(IDLE, RUNNING) \/ Moved(PAUSED, RUNNING))
       \/ last.op = "pause" /\ Moved(RUNNING, PAUSED)
       \/ last.op = "tick" /\ Moved(RUNNING, COMPLETED) /\ timer.remainingTime = 0
       \/ last.op = "reset" /\ (Moved(PAUSED, IDLE) \/ Moved(COMPLETED, IDLE))
  /\ (last.op = "pause" /\ last.pre.timer.state # RUNNING) => Now = last.pre

\* The transitions the Timer makes: the listed ones, Running to Idle by
\* reset(), any state to Idle by setDuration(), and Completed to Running by
\* start().
C24_TransitionsMade ==
  /\ timer.state # last.pre.timer.state =>
       \/ last.op = "start" /\ timer.state = RUNNING
       \/ last.op = "pause" /\ Moved(RUNNING, PAUSED)
       \/ last.op = "tick" /\ Moved(RUNNING, COMPLETED) /\ timer.remainingTime = 0
       \/ last.op \in {"reset", "setDuration"} /\ timer.state = IDLE
  /\ (last.op = "pause" /\ last.pre.timer.state # RUNNING) => Now = last.pre

\* start() took a Timer that had completed back to Running.
C24_CompletedRestarted == last.op = "start" /\ Moved(COMPLETED, RUNNING)

\* One call of every stateChange observer, in registration order, with the
\* arguments (newState, oldState).
StateChangeCalls(newState, oldState) ==
  [i \in 1..Len(timer.callbacks.stateChange) |->
     [event |-> "stateChange", idx |-> i, args |-> <<newState, oldState>>]]

\* C25: an operation that changes the Timer's state calls every stateChange
\* observer exactly once, with the new state and the state before the
\* operation; an operation that leaves the state as it was calls none.
C25_StateChangeFiresOncePerChange ==
  Fired("stateChange") =
    IF timer.state # last.pre.timer.state
    THEN StateChangeCalls(timer.state, last.pre.timer.state)
    ELSE <<>>

\* The completing tick called two stateChange observers, one of which threw.
C25_Witness ==
  /\ last.op = "tick"
  /\ Moved(RUNNING, COMPLETED)
  /\ Len(Fired("stateChange")) = 2
  /\ probe.logged > 0

\* reset() in Idle, start() in Running and pause() outside Running, each with
\* an observer registered.
C25_NoOpWitness ==
  /\ timer.callbacks.stateChange # <<>>
  /\ \/ last.op = "reset" /\ last.pre.timer.state = IDLE
     \/ last.op = "start" /\ last.pre.timer.state = RUNNING
     \/ last.op = "pause" /\ last.pre.timer.state = PAUSED

\* C26: setDuration(s) discards the countdown whatever the state: afterwards
\* the duration and the remaining time are s, the Timer is Idle, it holds no
\* interval handle and no periodic source is active.
C26_SetDurationDiscardsCountdown ==
  last.op = "setDuration" =>
    /\ timer.duration = last.arg[1]
    /\ timer.remainingTime = last.arg[1]
    /\ timer.state = IDLE
    /\ timer.intervalId = Null
    /\ intervals = {}

\* setDuration() on a running Timer with part of its countdown elapsed, to a
\* duration other than the one it had.
C26_Witness ==
  /\ last.op = "setDuration"
  /\ last.pre.timer.state = RUNNING
  /\ last.pre.intervals # {}
  /\ last.pre.timer.remainingTime < last.pre.timer.duration
  /\ last.arg[1] # last.pre.timer.duration

\* The most recent day a task was completed on.
MostRecentDay == CHOOSE day \in CompletionDays : \A d \in CompletionDays : d <= day

\* The length of the run of consecutive days in days that ends on day.
RunEndingOn(days, day) ==
  CHOOSE n \in 1..Cardinality(days) :
    IsRun(days, day - n + 1, n) /\ (day - n) \notin days

\* C27, as claimed: the currentStreak getStreakInfo() returns is not zero
\* exactly when the most recent completion date is today or yesterday, and is
\* then the length of the run of consecutive days that ends on that date; it
\* is zero when the most recent completion is two or more days back, or there
\* is none.
C27_CurrentStreakEndsTodayOrYesterday ==
  last.op = "getStreakInfo" =>
    probe.result.currentStreak =
      IF CompletionDays # {} /\ today - MostRecentDay <= 1
      THEN RunEndingOn(CompletionDays, MostRecentDay)
      ELSE 0

\* getStreakInfo() returned no current streak the day after a completion.
C27_YesterdayCountsForNothing ==
  /\ last.op = "getStreakInfo"
  /\ CompletionDays # {}
  /\ today - MostRecentDay = 1
  /\ probe.result.currentStreak = 0

\* C28, as claimed: one periodic source is active when the Timer is Running
\* and none otherwise, and the interval handle is that source (null when there
\* is none), also with an observer that calls start(), pause() or reset() from
\* inside a stateChange or complete callback.
C28_OneSourceIffRunning ==
  /\ Cardinality(intervals) = (IF timer.state = RUNNING THEN 1 ELSE 0)
  /\ timer.state = RUNNING => intervals = {timer.intervalId}
  /\ timer.state # RUNNING => timer.intervalId = Null

\* A periodic source is active, and ticks, while the Timer is Paused or Idle.
C28_SourceLeaked ==
  /\ timer.state \in {PAUSED, IDLE}
  /\ intervals # {}
  /\ last.op = "tick"
  /\ timer.remainingTime < last.pre.timer.remainingTime

\* The Timer is Running and holds no handle of the source that ticks: no
\* pause() or reset() can stop that source any more.
C28_HandleLost ==
  /\ timer.state = RUNNING
  /\ timer.intervalId = Null
  /\ intervals # {}

\* A write of the history leaves today's statistics as they read, and a write
\* of the statistics leaves the history as it reads.
C29_ReadBackUnchanged ==
  /\ last.op \in {"saveTask", "clearHistory"} =>
       getTodaysStats(World) = getTodaysStats(Before)
  /\ last.op \in {"incrementSessionCount", "resetDailyStats"} =>
       getAllTasks(World) = getAllTasks(Before)

\* C29, as claimed: the settings, the task history and the statistics are
\* stored under three different keys, so that saveTask and clearHistory leave
\* what getTodaysStats reads unchanged, and incrementSessionCount and
\* resetDailyStats leave what getAllTasks reads unchanged.
C29_StoresUnderDistinctKeys ==
  /\ Cardinality({SETTINGS, TASK_HISTORY, STATISTICS}) = 3
  /\ C29_ReadBackUnchanged

\* The history and the statistics are one item: a statistics write rewrote the
\* item that holds the history, and the item is still the history's array.
C29_StatisticsWriteRewroteHistory ==
  /\ last.op = "incrementSessionCount"
  /\ probe.result = TRUE
  /\ getAllTasks(Before).items # <<>>
  /\ localStorage.items[STATISTICS] = localStorage.items[TASK_HISTORY]
  /\ localStorage.items[STATISTICS].json = "array"

C30_RestartWitness ==
  /\ last.op = "handleStart"
  /\ last.pre.timer.state = COMPLETED
  /\ timer.state = RUNNING
  /\ ~app.isBreakMode

====
